---- MODULE Spec2Model ----
(***************************************************************************)
(* context-hub: the incremental synchronisation pipeline.                  *)
(*                                                                         *)
(* The repository (a commit graph with commit dates), the SQLite store     *)
(* (tables global_context and ttl_memory), the wall clock, and one         *)
(* `contexthub sync` invocation at a time, split                           *)
(* where it waits for the backend: candidate resolution and dedup, the     *)
(* reachability probe, one step per commit, the final report.              *)
(***************************************************************************)
EXTENDS Integers, Sequences, FiniteSets, TLC

\* ------------------------------------------------------------------ bounds
NumCommits == 3      \* commits of the repository, numbered in creation order
MaxDate == 2         \* commit timestamps are drawn from 1..MaxDate
MaxSyncs == 2        \* sync invocations in one behaviour
MaxTime == 1         \* the clock runs from 0 to MaxTime (days)
MaxFaults == 1       \* repository/store statements that fail in one behaviour
MaxTtlRows == 3      \* rows of ttl_memory when the table is called directly
MaxStores == 3       \* direct calls of store_global_context in one behaviour
MaxTokens == 3       \* pieces a response text is made of
ObjectBytes == 40    \* bytes of a {..} piece of a response text
ConfigTtlDays == 1   \* context.ttl_days of the loaded configuration
MaxCalls == 2        \* process_commit calls for one commit in one sync

\* ------------------------------------------------------- program constants
DefaultCommitRange == 10
FallbackLimit == 200                \* parse_response: response.len().min(200)

\* ------------------------------------------------------------------ values
Commits == 1..NumCommits
HeadCommit == NumCommits                 \* the commit HEAD points at
NoRef == 0                         \* from_commit = None
BadRef == NumCommits + 1           \* a reference that resolves to no commit
NoCount == -1                      \* last_n = None
NoSummary == "none"                \* Option<String>::None
Summaries == {"s1", "s2"}          \* summaries the extractor can return

VARIABLES
    parents,     \* repository: commit -> set of parent commits
    date,        \* repository: commit -> commit timestamp
    global,      \* table global_context: a set of rows
    ttl,         \* table ttl_memory: rows in rowid order
    now,         \* Utc::now(), in days
    pc,          \* position of the running command
    commits,     \* sync_context: the Vec `commits` after reverse and retain
    idx,         \* sync_context: loop index (1-based)
    skipped,     \* sync_context: `skipped`
    count,       \* sync_context: the count it reports at the end
    result,      \* how the last sync invocation ended
    cands,       \* history: the candidates, oldest first, before dedup
    hc,          \* history: candidates for which has_commit returned Ok(true)
    global0,     \* history: global_context when sync_context was entered
    ttl0,        \* history: ttl_memory when sync_context was entered
    log,         \* history: one entry per process_commit call of this sync
    prev,        \* history: the candidates of the previous sync invocation
    syncs,       \* number of sync invocations so far
    faults,      \* number of failed repository/store statements so far
    io           \* the last direct call of a store or extractor function:
                 \* its arguments, the tables before it, what it returned

vars == <<parents, date, global, ttl, now, pc, commits, idx, skipped,
          count, result, cands, hc, global0, ttl0, log, prev, syncs, faults,
          io>>

repo == <<parents, date>>
hist == <<cands, hc, global0, ttl0, log, prev>>

\* ----------------------------------------------------------------- helpers
Range(s) == {s[i] : i \in 1..Len(s)}

Take(s, n) == SubSeq(s, 1, IF n < Len(s) THEN n ELSE Len(s))

Max(S) == CHOOSE x \in S : \A y \in S : y <= x

RECURSIVE Perms(_)
Perms(S) ==
    IF S = {} THEN {<<>>}
    ELSE UNION {{<<x>> \o p : p \in Perms(S \ {x})} : x \in S}

\* ------------------------------------------------------------- core/git.rs
RECURSIVE Ancestors(_)
Ancestors(c) == UNION {{p} \cup Ancestors(p) : p \in parents[c]}

Reach(c) == {c} \cup Ancestors(c)

\* Sort::TIME alone: latest timestamp first, whatever the parent relation
IsWalkByTime(s, S) ==
    /\ Range(s) = S
    /\ \A i \in 1..Len(s) : \A j \in i..Len(s) : date[s[j]] <= date[s[i]]

\* Sort::TIME | Sort::TOPOLOGICAL: a commit is emitted only after all of its
\* children in the walk, and among the commits that may be emitted the one
\* with the latest timestamp goes first (equal timestamps: either).
IsWalk(s, S) ==
    /\ Range(s) = S
    /\ \A i \in 1..Len(s) :
          LET rest == {s[j] : j \in i..Len(s)}
              ready == {c \in rest : \A d \in rest : c \notin parents[d]}
          IN  /\ s[i] \in ready
              /\ \A d \in ready : date[d] <= date[s[i]]

Revwalk(S) == {s \in Perms(S) : IsWalk(s, S)}

\* push_head, then revwalk.count()
get_commit_count == Cardinality(Reach(HeadCommit))

get_commit_history(limit) == {Take(w, limit) : w \in Revwalk(Reach(HeadCommit))}

get_commit_range_fails(from, to) == from \notin Commits \/ to \notin Commits

\* hide(from) that spares the hidden commit itself
get_commit_range_inclusive(from, to) == Revwalk(Reach(to) \ Ancestors(from))

\* push(to), hide(from): what `to` reaches and `from` does not
get_commit_range(from, to) == Revwalk(Reach(to) \ Reach(from))

\* --------------------------------------------------------- core/storage.rs
NextId(rows) == IF rows = {} THEN 1 ELSE Max({r.id : r \in rows}) + 1

has_commit(g, h) == Cardinality({r \in g : r.commit_hash = h}) > 0

\* a table without the UNIQUE constraint: no row conflicts
KeepConflicts(g, row) == g

\* a UNIQUE constraint on commit_date: rows of the same date conflict
ReplaceConflictsByDate(g, row) == {r \in g : r.commit_date # row.commit_date}

\* OR REPLACE: the rows that do not conflict with `row` on the UNIQUE column
\* commit_hash stay; the conflicting row is deleted.
ReplaceConflicts(g, row) == {r \in g : r.commit_hash # row.commit_hash}

\* ON CONFLICT(commit_hash) DO UPDATE SET context_summary: the stored row
\* keeps its other columns
UpsertRowMerge(g, row) ==
    IF has_commit(g, row.commit_hash)
    THEN {IF r.commit_hash = row.commit_hash
          THEN [r EXCEPT !.context_summary = row.context_summary] ELSE r : r \in g}
    ELSE g \cup {row}

\* INSERT OR REPLACE INTO global_context: delete the conflicting row, insert.
UpsertRow(g, row) == ReplaceConflicts(g, row) \cup {row}

GlobalRow(g, c, summary) ==
    [id |-> NextId(g), commit_hash |-> c, commit_message |-> c,
     commit_date |-> date[c], context_summary |-> summary,
     files_changed |-> {c}, llm_extracted_context |-> summary]

\* INSERT with no conflict clause: the conflicting row stays.
store_global_context_insert(g, c, summary) == g \cup {GlobalRow(g, c, summary)}

\* INSERT OR REPLACE on the UNIQUE column commit_hash.
store_global_context(g, c, summary) == UpsertRow(g, GlobalRow(g, c, summary))

\* ORDER BY commit_date DESC LIMIT 1: the row with the greatest commit_date;
\* among rows with equal dates the backward walk of idx_global_date meets the
\* one with the greatest rowid first.
LatestRows(g) ==
    {r \in g : \A q \in g :
        \/ q.commit_date < r.commit_date
        \/ (q.commit_date = r.commit_date /\ q.id <= r.id)}

get_latest_context_summary(g) ==
    IF g = {} THEN {[summary |-> NoSummary, of |-> 0]}
    ELSE {[summary |-> r.context_summary, of |-> r.commit_hash] : r \in LatestRows(g)}

store_ttl_memory(t, h, content, days) ==
    Append(t, [id |-> NextId(Range(t)), commit_hash |-> h, content |-> content,
               expires_at |-> now + days, created_at |-> now])

\* config.context.ttl_days is an i32 (utils/config.rs) that `contexthub memory
\* ttl --set-ttl` sets to any value of the type.
I32Max == 2147483647

I32Min == -I32Max - 1

\* Utc::now() + Duration::days(..) panics ("`DateTime + Duration` overflowed")
\* when the sum leaves chrono's DateTime range, whose ends lie about 260,000
\* years from today.  In days from day 0 of the model's clock (estimates; only
\* their order of magnitude matters, i32 days span 5.8 million years):
DaysToMaxDateTime == 95005000

DaysToMinDateTime == -96485000

store_ttl_memory_panics(at, days) ==
    \/ days > DaysToMaxDateTime - at
    \/ days < DaysToMinDateTime - at

\* expires_at is stored as the text of to_rfc3339() and compared as text with
\* the text of Utc::now().  to_rfc3339 writes a year of 0000..9999 as four
\* digits, a later year as "+10000-..", an earlier one as "-0001-..".  Text of
\* today's date starts with a digit; '+' and '-' sort before every digit.  So
\* text order agrees with time order exactly for instants of the years
\* 0000..9999, and any other instant compares as less than `at`.
\* Day 0 of the model's clock to 10000-01-01, in days (estimate):
DaysToYear10000 == 2912135

\* and back to 0000-01-01:
DaysToYear0 == -740290

FourDigitYear(t) == DaysToYear0 <= t /\ t < DaysToYear10000

\* the SQL test `expires_at > ?now`
TextAfterOrAt(exp, at) == FourDigitYear(exp) /\ exp >= at

TextAfter(exp, at) == FourDigitYear(exp) /\ exp > at

NotExpired(row) == TextAfter(row.expires_at, now)

\* the SQL test `expires_at <= ?now`
Expired(row) == ~NotExpired(row)

\* a DELETE with `expires_at < ?now`: a row that expires now stays
cleanup_expired_ttl_strict(t) ==
    LET Stays(row) == NotExpired(row) \/ row.expires_at = now IN SelectSeq(t, Stays)

\* DELETE FROM ttl_memory WHERE expires_at <= ?now
cleanup_expired_ttl(t) == SelectSeq(t, NotExpired)

\* the usize cleanup_expired_ttl returns: the rows its DELETE removed
cleanup_expired_ttl_deleted(t) == Len(SelectSeq(t, Expired))

\* a DELETE that carries the WHERE clause of cleanup_expired_ttl
clear_ttl_memory_expired(t) == SelectSeq(t, NotExpired)

\* DELETE FROM ttl_memory, without a WHERE clause
clear_ttl_memory(t) == <<>>

\* get_ttl_memory builds one TtlMemory per selected row.  expires_at was
\* written by to_rfc3339 and parse_from_rfc3339 reads it back when its year has
\* four digits; created_at was written by CURRENT_TIMESTAMP
\* ("YYYY-MM-DD HH:MM:SS", no offset), never parses as RFC 3339, and
\* unwrap_or_else(|_| Utc::now()) puts the time of the read in its place.
TtlMemoryOf(row, at) ==
    [id |-> row.id, commit_hash |-> row.commit_hash, content |-> row.content,
     expires_at |-> IF FourDigitYear(row.expires_at) THEN row.expires_at ELSE at,
     created_at |-> at]

\* ORDER BY created_at DESC, on the stored column
CreatedOrder(a, b) == a.created_at >= b.created_at

\* Every result the SELECT of get_ttl_memory can produce at time `at`: rows
\* with equal created_at come in an order SQLite does not fix.
get_ttl_memory(t, at) ==
    LET sel == {i \in 1..Len(t) : TextAfter(t[i].expires_at, at)}
        ord == {p \in Perms(sel) :
                   \A k \in 1..(Len(p) - 1) : CreatedOrder(t[p[k]], t[p[k + 1]])}
    IN  {[k \in 1..Len(p) |-> TtlMemoryOf(t[p[k]], at)] : p \in ord}

get_context_count(g) == Cardinality(g)

\* ORDER BY commit_date DESC LIMIT 1 on commit_hash; .ok() on an empty table
get_last_processed_commit(g) ==
    IF g = {} THEN {} ELSE {r.commit_hash : r \in LatestRows(g)}

\* a CREATE TABLE that first drops the table
create_table(rows, empty) == empty

\* Storage::new runs init_tables on every open: CREATE TABLE IF NOT EXISTS
\* leaves an existing table and its rows alone
create_table_if_not_exists(rows, empty) == rows

\* ------------------------------------------------------ commands/sync.rs
ReverseNone(s) == s

Reverse(s) == [i \in 1..Len(s) |-> s[Len(s) + 1 - i]]

\* has_commit(..).unwrap_or(false): a query that fails counts as "not stored".
HasCommitTrue(c, failing) == c \notin failing /\ has_commit(global, c)

DedupNone(s, failing) == s

Dedup(s, failing) ==
    LET Keep(c) == ~HasCommitTrue(c, failing) IN SelectSeq(s, Keep)

\* a count that is honoured before the starting reference
ResolveCountFirst(from, last) ==
    IF last # NoCount THEN get_commit_history(last)
    ELSE IF from # NoRef THEN get_commit_range(from, HeadCommit)
    ELSE get_commit_history(DefaultCommitRange)

\* sync.rs 16-22: the first rule that matches
Resolve(from, last) ==
    IF from # NoRef THEN get_commit_range(from, HeadCommit)
    ELSE IF last # NoCount THEN get_commit_history(last)
    ELSE get_commit_history(DefaultCommitRange)

\* an error of get_commit_range taken for an empty range
RangeErrorIgnored == "ok"

\* get_commit_range(..)?: the error leaves sync_context at once
RangeError == "err_ref"

PreflightPcAlways(up) == "loop"

PreflightPc(up) == IF up THEN "loop" ELSE "done"

AfterCommitAbort(outcome) == IF outcome = "ok" THEN "loop" ELSE "done"

\* both arms of the match fall through to the next iteration
AfterCommit(outcome) == "loop"

Idle == pc \in {"idle", "done"}

\* ------------------------------------------------------------------- Init
Shapes ==
    {p \in [Commits -> SUBSET Commits] :
        /\ p[1] = {}
        /\ \A c \in Commits \ {1} :
              /\ p[c] # {}
              /\ Cardinality(p[c]) <= 2
              /\ \A q \in p[c] : q < c}

Init ==
    /\ parents \in Shapes
    /\ date \in [Commits -> 1..MaxDate]
    /\ global = {}
    /\ ttl = <<>>
    /\ now = 0
    /\ pc = "idle"
    /\ commits = <<>>
    /\ idx = 1
    /\ skipped = 0
    /\ count = 0
    /\ result = "none"
    /\ cands = <<>>
    /\ hc = {}
    /\ global0 = {}
    /\ ttl0 = <<>>
    /\ log = <<>>
    /\ prev = [cands |-> <<>>, stored |-> FALSE]
    /\ syncs = 0
    /\ faults = 0
    /\ io = [op |-> "none"]

\* ---------------------------------------------------------------- actions
\* What every way of starting `contexthub sync` records about the run before.
Begin(t) ==
    /\ syncs' = syncs + 1
    /\ prev' = [cands |-> cands,
                stored |-> \A c \in Range(cands) : has_commit(global, c)]
    /\ ttl' = t
    /\ ttl0' = t
    /\ global0' = global
    /\ log' = <<>>
    /\ idx' = 1
    /\ count' = 0

\* main.rs Commands::Sync (cleanup_expired_ttl, then sync_context) up to the
\* reachability probe: resolve, reverse, dedup.
sync_context(from, last) ==
    /\ Idle
    /\ syncs < MaxSyncs
    /\ Begin(cleanup_expired_ttl(ttl))
    /\ UNCHANGED <<repo, global, now>>
    /\ IF from # NoRef /\ get_commit_range_fails(from, HeadCommit)
       THEN /\ pc' = "done"
            /\ result' = RangeError
            /\ commits' = <<>>
            /\ cands' = <<>>
            /\ hc' = {}
            /\ skipped' = 0
            /\ UNCHANGED faults
       ELSE \E walk \in Resolve(from, last) :
            \E failing \in SUBSET Range(walk) :
               LET rev == Reverse(walk)
                   kept == Dedup(rev, failing)
               IN  /\ faults + Cardinality(failing) <= MaxFaults
                   /\ faults' = faults + Cardinality(failing)
                   /\ cands' = rev
                   /\ IF walk = <<>>
                      THEN /\ commits' = <<>>
                           /\ hc' = {}
                           /\ skipped' = 0
                           /\ pc' = "done"
                           /\ result' = "ok"
                      ELSE /\ commits' = kept
                           /\ hc' = {c \in Range(rev) : HasCommitTrue(c, failing)}
                           /\ skipped' = Len(rev) - Len(kept)
                           /\ pc' = IF kept = <<>> THEN "done" ELSE "preflight"
                           /\ result' = IF kept = <<>> THEN "ok" ELSE "running"

SyncContext(from, last) == sync_context(from, last) /\ UNCHANGED io

\* sync.rs 50-54: is_ollama_running
Preflight ==
    /\ pc = "preflight"
    /\ \E up \in BOOLEAN :
          /\ pc' = PreflightPc(up)
          /\ result' = IF up THEN "running" ELSE "err_backend"
    /\ UNCHANGED <<repo, io, global, ttl, now, commits, idx, skipped,
                   count, hist, syncs, faults>>

Outcomes == {"diff_err", "backend_err", "store_err", "ttl_err", "ok"}

IsFault(outcome) == outcome \in {"diff_err", "store_err", "ttl_err"}

\* The summary that process_commit hands to extract_context as
\* previous_context: the latest stored one, read before the extraction.
previous_context(g) == get_latest_context_summary(g)

\* extract_context returned Ok: the response was parsed into a summary
Extracted(outcome) == outcome \in {"store_err", "ttl_err", "ok"}

\* store_global_context ran and succeeded
DurableWritten(outcome) == outcome \in {"ttl_err", "ok"}

TtlWrittenUnchecked(outcome) == outcome \in {"store_err", "ok"}

\* store_ttl_memory ran and succeeded: only after the durable write's `?`
TtlWritten(outcome) == outcome = "ok"

\* sync.rs 56-71 for one commit: process_commit and the match on its result.
ProcessCommit ==
    /\ pc = "loop"
    /\ idx <= Len(commits)
    /\ \E outcome \in Outcomes, s \in Summaries, p \in previous_context(global) :
          LET c == commits[idx]
              called == outcome # "diff_err"
          IN  /\ IsFault(outcome) => faults < MaxFaults
              /\ faults' = IF IsFault(outcome) THEN faults + 1 ELSE faults
              /\ global' = IF DurableWritten(outcome)
                           THEN store_global_context(global, c, s) ELSE global
              /\ ttl' = IF TtlWritten(outcome)
                        THEN store_ttl_memory(ttl, c, s, ConfigTtlDays) ELSE ttl
              /\ log' = Append(log,
                     [commit |-> c,
                      extracted |-> called,
                      previous |-> IF called THEN p.summary ELSE NoSummary,
                      previous_of |-> IF called THEN p.of ELSE 0,
                      outcome |-> outcome,
                      summary |-> IF Extracted(outcome) THEN s ELSE NoSummary])
              /\ idx' = idx + 1
              /\ pc' = AfterCommit(outcome)
    /\ UNCHANGED <<repo, io, now, commits, skipped, count, result,
                   cands, hc, global0, ttl0, prev, syncs>>

\* sync.rs 73-78: get_context_count and the final report
SyncReport ==
    /\ pc = "loop"
    /\ idx > Len(commits)
    /\ \E ok \in BOOLEAN :
          /\ ~ok => faults < MaxFaults
          /\ faults' = IF ok THEN faults ELSE faults + 1
          /\ count' = IF ok THEN get_context_count(global) ELSE 0
          /\ result' = IF ok THEN "ok" ELSE "err_store"
    /\ pc' = "done"
    /\ UNCHANGED <<repo, io, global, ttl, now, commits, idx, skipped,
                   hist, syncs>>

\* commands/memory.rs clear_ttl_memory
ClearTtlMemory ==
    /\ Idle
    /\ ttl # <<>>
    /\ ttl' = clear_ttl_memory(ttl)
    /\ pc' = "idle"
    /\ UNCHANGED <<repo, io, global, now, commits, idx, skipped, count,
                   result, hist, syncs, faults>>

\* the clock
Tick ==
    /\ now < MaxTime
    /\ now' = now + 1
    /\ UNCHANGED <<repo, io, global, ttl, pc, commits, idx, skipped,
                   count, result, hist, syncs, faults>>

Next ==
    \/ \E from \in {NoRef, BadRef} \cup Commits,
          last \in {NoCount} \cup (0..NumCommits) : SyncContext(from, last)
    \/ Preflight
    \/ ProcessCommit
    \/ SyncReport
    \/ ClearTtlMemory
    \/ Tick

Spec == Init /\ [][Next]_vars

\* ======================================== the TTL table, called directly
\* The functions of core/storage.rs on ttl_memory, called in any order at any
\* time with any arguments: what `sync` (cleanup, then one store per commit
\* under the configured ttl_days), `memory ttl` and `memory ttl --clear` do to
\* the table across invocations and configuration changes.
TtlDays == {I32Min, -1, 0, 1, DaysToYear10000, I32Max}

TtlHashes == {1, HeadCommit}

\* the variables of the sync pipeline, at rest
Parked ==
    /\ parents = [c \in Commits |-> IF c = 1 THEN {} ELSE {c - 1}]
    /\ date = [c \in Commits |-> 1]
    /\ pc = "idle"
    /\ commits = <<>>
    /\ idx = 1
    /\ skipped = 0
    /\ count = 0
    /\ result = "none"
    /\ cands = <<>>
    /\ hc = {}
    /\ global0 = {}
    /\ ttl0 = <<>>
    /\ log = <<>>
    /\ prev = [cands |-> <<>>, stored |-> FALSE]
    /\ syncs = 0
    /\ faults = 0

sync_vars == <<repo, pc, commits, idx, skipped, count, result, hist, syncs, faults>>

Call(op, arg, ret) ==
    [op |-> op, at |-> now, before |-> ttl, durable |-> global, arg |-> arg, ret |-> ret]

InitTtl ==
    /\ Parked
    /\ global = {[id |-> 1, commit_hash |-> 1, commit_message |-> 1,
                  commit_date |-> 1, context_summary |-> "s1",
                  files_changed |-> {1}, llm_extracted_context |-> "s1"]}
    /\ ttl = <<>>
    /\ now = 0
    /\ io = [op |-> "none"]

StoreTtlMemory(h, content, days) ==
    /\ Len(ttl) < MaxTtlRows
    /\ IF store_ttl_memory_panics(now, days)
       THEN /\ ttl' = ttl
            /\ io' = Call("store_ttl_memory",
                          [hash |-> h, content |-> content, days |-> days], "panic")
       ELSE /\ ttl' = store_ttl_memory(ttl, h, content, days)
            /\ io' = Call("store_ttl_memory",
                          [hash |-> h, content |-> content, days |-> days], "ok")
    /\ UNCHANGED <<sync_vars, global, now>>

GetTtlMemory ==
    /\ \E rows \in get_ttl_memory(ttl, now) : io' = Call("get_ttl_memory", <<>>, rows)
    /\ UNCHANGED <<sync_vars, global, ttl, now>>

CleanupExpiredTtl ==
    /\ ttl' = cleanup_expired_ttl(ttl)
    /\ io' = Call("cleanup_expired_ttl", <<>>, cleanup_expired_ttl_deleted(ttl))
    /\ UNCHANGED <<sync_vars, global, now>>

ClearTtl ==
    /\ ttl' = clear_ttl_memory(ttl)
    /\ io' = Call("clear_ttl_memory", <<>>, "ok")
    /\ UNCHANGED <<sync_vars, global, now>>

\* sync.rs 81-105: open the store, read the three figures, probe the backend
\* with GET /api/tags.  A `?` that fires ends the function before the probe.
GetSyncStatus(up, fails) ==
    /\ global' = create_table_if_not_exists(global, {})
    /\ ttl' = create_table_if_not_exists(ttl, <<>>)
    /\ io' = Call("get_sync_status", [up |-> up],
                  IF fails
                  THEN [result |-> "err", requests |-> <<>>]
                  ELSE [result |-> "ok",
                        total_commits |-> get_commit_count,
                        stored_count |-> get_context_count(global),
                        last_processed |-> get_last_processed_commit(global),
                        backend |-> up,
                        requests |-> <<"GET /api/tags">>])
    /\ UNCHANGED <<sync_vars, now>>

TickTtl ==
    /\ now < MaxTime
    /\ now' = now + 1
    /\ UNCHANGED <<sync_vars, global, ttl, io>>

NextTtl ==
    \/ \E h \in TtlHashes, content \in Summaries, days \in TtlDays :
          StoreTtlMemory(h, content, days)
    \/ GetTtlMemory
    \/ CleanupExpiredTtl
    \/ ClearTtl
    \/ \E up \in BOOLEAN, fails \in BOOLEAN : GetSyncStatus(up, fails)
    \/ TickTtl

SpecTtl == InitTtl /\ [][NextTtl]_vars

\* ================================ store_global_context, called directly
\* Any sequence of calls with any arguments: the table's contract, also for
\* arguments that differ between two calls on one commit hash.
Messages == {1, 2}

FileLists == {{1}, {2}}

InitGlobal ==
    /\ Parked
    /\ global = {}
    /\ ttl = <<>>
    /\ now = 0
    /\ io = [op |-> "none"]

StoreGlobalContext(h, msg, d, summary, files, json) ==
    /\ NextId(global) <= MaxStores
    /\ global' = UpsertRow(global,
                     [id |-> NextId(global), commit_hash |-> h, commit_message |-> msg,
                      commit_date |-> d, context_summary |-> summary,
                      files_changed |-> files, llm_extracted_context |-> json])
    /\ io' = Call("store_global_context",
                  [hash |-> h, message |-> msg, date |-> d, summary |-> summary,
                   files |-> files, json |-> json], "ok")
    /\ UNCHANGED <<sync_vars, ttl, now>>

\* query_row(..).ok(): a query that fails yields None, like an empty table
GetLatestContextSummary(fails) ==
    /\ \E r \in (IF fails THEN {[summary |-> NoSummary, of |-> 0]}
                 ELSE get_latest_context_summary(global)) :
          io' = Call("get_latest_context_summary", [fails |-> fails], r.summary)
    /\ UNCHANGED <<sync_vars, global, ttl, now>>

\* the same .ok() in get_last_processed_commit: None for an empty table and
\* for a query that fails
GetLastProcessedCommit(fails) ==
    /\ \E h \in (IF fails \/ global = {} THEN {NoRef}
                 ELSE get_last_processed_commit(global)) :
          io' = Call("get_last_processed_commit", [fails |-> fails], h)
    /\ UNCHANGED <<sync_vars, global, ttl, now>>

NextGlobal ==
    \/ \E h \in TtlHashes, msg \in Messages, d \in 1..MaxDate, summary \in Summaries,
          files \in FileLists, json \in Summaries :
           StoreGlobalContext(h, msg, d, summary, files, json)
    \/ \E fails \in BOOLEAN : GetLatestContextSummary(fails)
    \/ \E fails \in BOOLEAN : GetLastProcessedCommit(fails)

SpecGlobal == InitGlobal /\ [][NextGlobal]_vars

\* ============================================================ core/llm.rs
\* A response text is a sequence of pieces.  A piece is a run of n characters
\* of w bytes each that holds no brace and is not JSON, a lone "{", a lone
\* "}", or a balanced {..} text described by what a JSON parser finds in it.
Absent == "<absent>"            \* the member is not in the object

WrongType == "<wrong type>"     \* the member holds null, a number, ...

NoMembers ==
    [syntax |-> "none", summary |-> Absent, files_changed |-> Absent,
     key_details |-> Absent, technologies |-> Absent, impact |-> Absent]

Piece(k, w, n, members) ==
    [k |-> k, w |-> w, n |-> n, syntax |-> members.syntax,
     summary |-> members.summary, files_changed |-> members.files_changed,
     key_details |-> members.key_details, technologies |-> members.technologies,
     impact |-> members.impact]

TextPieces ==
    {Piece("text", 1, n, NoMembers) : n \in {1, FallbackLimit, FallbackLimit + 1}}
    \cup {Piece("text", 2, FallbackLimit, NoMembers)}
    \cup {Piece("text", 3, n, NoMembers) : n \in {1, FallbackLimit \div 3 + 1}}

BracePieces == {Piece("{", 1, 1, NoMembers), Piece("}", 1, 1, NoMembers)}

ObjectMembers ==
    [syntax : {"valid"},
     summary : {Absent, WrongType, "sum"},
     files_changed : {Absent, WrongType, "none", "one"},
     key_details : {Absent, "one"},
     technologies : {Absent, "one"},
     impact : {Absent, WrongType, "", "low", "medium", "high", "critical"}]

ObjectPieces ==
    {Piece("obj", 1, ObjectBytes, m) : m \in ObjectMembers}
    \cup {Piece("obj", 1, ObjectBytes, [NoMembers EXCEPT !.syntax = "invalid"])}

RECURSIVE Seqs(_, _)
Seqs(S, n) ==
    IF n = 0 THEN {<<>>}
    ELSE LET shorter == Seqs(S, n - 1)
         IN  shorter \cup {Append(q, x) : q \in {r \in shorter : Len(r) = n - 1}, x \in S}

\* response texts: up to MaxTokens pieces, at most one of them a described
\* object (a second object is spelled with lone braces and text)
PlainResponses == Seqs(TextPieces \cup BracePieces, MaxTokens)

ShortResponses == Seqs(TextPieces \cup BracePieces, MaxTokens - 1)

WithObject(q, i, o) == Take(q, i) \o <<o>> \o SubSeq(q, i + 1, Len(q))

ByteLen(piece) == piece.w * piece.n

RECURSIVE Offset(_, _)
\* the byte offset at which piece i starts; Offset(r, Len(r) + 1) = r.len()
Offset(r, i) == IF i <= 1 THEN 0 ELSE Offset(r, i - 1) + ByteLen(r[i - 1])

Opens(r) == {i \in 1..Len(r) : r[i].k \in {"{", "obj"}}

Closes(r) == {i \in 1..Len(r) : r[i].k \in {"}", "obj"}}

Min(S) == CHOOSE x \in S : \A y \in S : x <= y

\* response.find('{') and response.rfind('}'), as byte offsets
find_open(r) == Offset(r, Min(Opens(r)))

rfind_close(r) == Offset(r, Max(Closes(r)) + 1) - 1

\* &response[a..b] panics when b is not a char boundary of the text
is_char_boundary(r, b) ==
    \/ b = Offset(r, Len(r) + 1)
    \/ \E i \in 1..Len(r) :
          /\ Offset(r, i) <= b /\ b < Offset(r, i + 1)
          /\ (b - Offset(r, i)) % r[i].w = 0

\* &response[start..=end] panics when start > end + 1
slice_panics(start, end) == start > end + 1

\* serde_json::from_str over the whole response text
json_str_whole(r) == r

\* json_str = &response[start..=end]: the pieces from the first "{" to the
\* last "}", none when the slice is empty
json_str(r) == SubSeq(r, Min(Opens(r)), Max(Closes(r)))

ListValue(member) == IF member = "one" THEN <<"item">> ELSE <<>>

\* serde_json::from_str::<RawContext>: summary is a required String, the
\* other members take their Default when absent, unknown members are skipped;
\* text that is not one JSON value, or a member of another type, is an error.
deserializes(json) ==
    /\ Len(json) = 1
    /\ json[1].k = "obj"
    /\ json[1].syntax = "valid"
    /\ json[1].summary \notin {Absent, WrongType}
    /\ json[1].files_changed # WrongType
    /\ json[1].key_details # WrongType
    /\ json[1].technologies # WrongType
    /\ json[1].impact # WrongType

RawContext(o) ==
    [summary |-> o.summary,
     files_changed |-> ListValue(o.files_changed),
     key_details |-> ListValue(o.key_details),
     technologies |-> ListValue(o.technologies),
     impact |-> IF o.impact = Absent THEN "" ELSE o.impact]

\* a String: a literal followed by the first `raw` bytes of the response
Str(lit, raw) == [lit |-> lit, raw |-> raw]

Returned(ctx) == [kind |-> "ok", ctx |-> ctx]

Panicked == [kind |-> "panic", ctx |-> <<>>]

Failed == [kind |-> "err", ctx |-> <<>>]

EmptyRecord ==
    [summary |-> Str("Empty response from LLM", 0), files_changed |-> <<>>,
     key_details |-> <<>>, technologies |-> <<>>, impact |-> "low"]

Fallback(r) ==
    LET cut == IF Offset(r, Len(r) + 1) < FallbackLimit
               THEN Offset(r, Len(r) + 1) ELSE FallbackLimit
    IN  IF ~is_char_boundary(r, cut) THEN Panicked
        ELSE Returned([summary |-> Str("Raw LLM response: ", cut),
                       files_changed |-> <<>>, key_details |-> <<>>,
                       technologies |-> <<>>, impact |-> "low"])

\* impact: any non-empty string is kept as it is
ImpactOf(raw) == IF raw.impact = "" THEN "medium" ELSE raw.impact

Structured(raw) ==
    Returned([summary |-> Str(raw.summary, 0), files_changed |-> raw.files_changed,
              key_details |-> raw.key_details, technologies |-> raw.technologies,
              impact |-> ImpactOf(raw)])

parse_response(r) ==
    IF r = <<>> THEN Returned(EmptyRecord)
    ELSE IF Opens(r) # {} /\ Closes(r) # {}
    THEN IF slice_panics(find_open(r), rfind_close(r)) THEN Panicked
         ELSE IF deserializes(json_str(r))
              THEN Structured(RawContext(json_str(r)[1]))
              ELSE Fallback(r)
    ELSE Fallback(r)

\* send().await?, the status test, response.json().await?, parse_response
HttpOutcomes == {"send_err", "status_err", "body_err", "ok"}

extract_context(http, r) == IF http = "ok" THEN parse_response(r) ELSE Failed

Request(http, r) == [op |-> "request", http |-> http, response |-> r, ret |-> Failed]

InitExtract ==
    /\ Parked
    /\ global = {}
    /\ ttl = <<>>
    /\ now = 0
    /\ \/ \E http \in HttpOutcomes \ {"ok"} : io = Request(http, <<>>)
       \/ \E r \in PlainResponses : io = Request("ok", r)
       \/ \E q \in ShortResponses, i \in 0..(MaxTokens - 1), o \in ObjectPieces :
             i <= Len(q) /\ io = Request("ok", WithObject(q, i, o))

ExtractContext ==
    /\ io.op = "request"
    /\ io' = [io EXCEPT !.op = "extract_context",
                        !.ret = extract_context(io.http, io.response)]
    /\ UNCHANGED <<sync_vars, global, ttl, now>>

NextExtract == ExtractContext

SpecExtract == InitExtract /\ [][NextExtract]_vars

\* ================================== the history walks, called directly
\* get_commit_history and get_commit_range on any repository of NumCommits
\* commits: several roots, merges, branches the head does not reach, and
\* commit timestamps that tie or run against the parent relation.
GitShapes ==
    {p \in [Commits -> SUBSET Commits] :
        /\ p[1] = {}
        /\ \A c \in Commits : \A d \in p[c] : d < c}

Refs == Commits \cup {BadRef}

Limits == 0..(NumCommits + 1)

InitGit ==
    /\ parents \in GitShapes
    /\ date \in [Commits -> 1..MaxDate]
    /\ pc = "idle"
    /\ commits = <<>>
    /\ idx = 1
    /\ skipped = 0
    /\ count = 0
    /\ result = "none"
    /\ cands = <<>>
    /\ hc = {}
    /\ global0 = {}
    /\ ttl0 = <<>>
    /\ log = <<>>
    /\ prev = [cands |-> <<>>, stored |-> FALSE]
    /\ syncs = 0
    /\ faults = 0
    /\ global = {}
    /\ ttl = <<>>
    /\ now = 0
    /\ io = [op |-> "none"]

GetCommitRange(from, to) ==
    /\ IF get_commit_range_fails(from, to)
       THEN io' = [op |-> "get_commit_range", from |-> from, to |-> to,
                   ret |-> "err", list |-> <<>>]
       ELSE \E w \in get_commit_range(from, to) :
               io' = [op |-> "get_commit_range", from |-> from, to |-> to,
                      ret |-> "ok", list |-> w]
    /\ UNCHANGED <<sync_vars, global, ttl, now>>

GetCommitHistory(limit) ==
    /\ \E w \in get_commit_history(limit) :
          io' = [op |-> "get_commit_history", limit |-> limit, ret |-> "ok", list |-> w]
    /\ UNCHANGED <<sync_vars, global, ttl, now>>

NextGit ==
    \/ \E from \in Refs, to \in Refs : GetCommitRange(from, to)
    \/ \E limit \in Limits : GetCommitHistory(limit)

SpecGit == InitGit /\ [][NextGit]_vars

\* =============================== the sync command, its arguments recorded
\* The pipeline of Spec at one instant, where every
\* `contexthub sync [--from F] [--last N]` leaves its arguments in io.
SyncCommand(from, last) ==
    /\ sync_context(from, last)
    /\ io' = [op |-> "sync", from |-> from, last |-> last,
              at |-> now, before |-> ttl, durable |-> global]

NextSync ==
    \/ \E from \in {NoRef, BadRef} \cup Commits,
          last \in {NoCount} \cup (0..NumCommits) : SyncCommand(from, last)
    \/ Preflight
    \/ ProcessCommit
    \/ SyncReport

SpecSync == Init /\ [][NextSync]_vars

\* The same commands on a store whose ttl_memory was filled earlier, under
\* whatever ttl_days was configured then: rows past, at and before their
\* expiry, and one whose expiry lies in the year 10000.
TtlExpiries == {0, 1, 2, DaysToYear10000}

TtlTables ==
    {<<>>} \cup
    UNION {{[k \in 1..n |-> [id |-> k, commit_hash |-> 1, content |-> "s1",
                             expires_at |-> e[k], created_at |-> 0]] :
              e \in [1..n -> TtlExpiries]} : n \in 1..2}

InitCmd ==
    /\ Parked
    /\ global = {}
    /\ ttl \in TtlTables
    /\ now \in 0..MaxTime
    /\ io = [op |-> "none"]

SpecCmd == InitCmd /\ [][NextSync]_vars

\* ================================== the per-commit loop, statement by statement
\* sync.rs 56-71 and context.rs 37-65 below the grain of ProcessCommit: every
\* call of process_commit is a step of its own, and io holds the position of
\* each commit of the batch, the summary its extraction returned and the
\* number of process_commit calls made for it.
Positions == {"todo", "diff", "extract", "store", "ttl", "ok", "err"}

Finished(pos, k) == pos[k] \in {"ok", "err"}

\* tokio::spawn of every process_commit before any of them is awaited
LoopSpawns(pos, k) == pos[k] = "todo"

\* `for commit in &commits { match processor.process_commit(commit).await ..`:
\* the body runs for commit k once the call for every commit before it returned
LoopReaches(pos, k) == pos[k] = "todo" /\ \A j \in 1..(k - 1) : Finished(pos, j)

\* a failed commit that goes back to the head of the loop
CommitRetried == "todo"

\* the Err arm of the match prints and falls through to the next commit
CommitFailed == "err"

Batches == {Reverse(w) : w \in UNION {get_commit_history(n) : n \in 1..NumCommits}}

InitSteps ==
    /\ parents = [c \in Commits |-> IF c = 1 THEN {} ELSE {c - 1}]
    /\ date = [c \in Commits |-> 1]
    /\ pc = "loop"
    /\ commits \in Batches
    /\ idx = 1
    /\ skipped = 0
    /\ count = 0
    /\ result = "running"
    /\ cands = commits
    /\ hc = {}
    /\ global0 = {}
    /\ ttl0 = <<>>
    /\ log = <<>>
    /\ prev = [cands |-> <<>>, stored |-> FALSE]
    /\ syncs = 1
    /\ faults = 0
    /\ global = {}
    /\ ttl = <<>>
    /\ now = 0
    /\ io = [op |-> "loop",
             pos |-> [k \in 1..Len(commits) |-> "todo"],
             ctx |-> [k \in 1..Len(commits) |-> NoSummary],
             calls |-> [k \in 1..Len(commits) |-> 0],
             count |-> NoCount]

Move(k, to) == io' = [io EXCEPT !.pos[k] = to]

\* process_commit(commit) is called: get_diff runs
StepCall(k) ==
    /\ LoopReaches(io.pos, k)
    /\ io.calls[k] < MaxCalls
    /\ io' = [io EXCEPT !.pos[k] = "diff", !.calls[k] = @ + 1]
    /\ UNCHANGED <<sync_vars, global, ttl, now>>

\* get_diff(..)? returned; on Ok the request of extract_context is sent
StepDiff(k, ok) ==
    /\ io.pos[k] = "diff"
    /\ Move(k, IF ok THEN "extract" ELSE CommitFailed)
    /\ UNCHANGED <<sync_vars, global, ttl, now>>

\* extract_context(..).await? returned
StepExtract(k, ok, s) ==
    /\ io.pos[k] = "extract"
    /\ io' = [io EXCEPT !.pos[k] = IF ok THEN "store" ELSE CommitFailed,
                        !.ctx[k] = IF ok THEN s ELSE NoSummary]
    /\ UNCHANGED <<sync_vars, global, ttl, now>>

\* store_global_context(..)? returned
StepStoreGlobal(k, ok) ==
    /\ io.pos[k] = "store"
    /\ global' = IF ok THEN store_global_context(global, commits[k], io.ctx[k]) ELSE global
    /\ Move(k, IF ok THEN "ttl" ELSE CommitFailed)
    /\ UNCHANGED <<sync_vars, ttl, now>>

\* store_ttl_memory(..)? returned, and process_commit with it
StepStoreTtl(k, ok) ==
    /\ io.pos[k] = "ttl"
    /\ ttl' = IF ok THEN store_ttl_memory(ttl, commits[k], io.ctx[k], ConfigTtlDays) ELSE ttl
    /\ Move(k, IF ok THEN "ok" ELSE CommitFailed)
    /\ UNCHANGED <<sync_vars, global, now>>

\* sync.rs 73-78 once the loop has run out
StepReport ==
    /\ io.count = NoCount
    /\ \A k \in 1..Len(commits) : Finished(io.pos, k)
    /\ io' = [io EXCEPT !.count = get_context_count(global)]
    /\ UNCHANGED <<sync_vars, global, ttl, now>>

NextSteps ==
    \/ \E k \in 1..Len(commits) : StepCall(k)
    \/ \E k \in 1..Len(commits), ok \in BOOLEAN : StepDiff(k, ok)
    \/ \E k \in 1..Len(commits), ok \in BOOLEAN, s \in Summaries : StepExtract(k, ok, s)
    \/ \E k \in 1..Len(commits), ok \in BOOLEAN : StepStoreGlobal(k, ok)
    \/ \E k \in 1..Len(commits), ok \in BOOLEAN : StepStoreTtl(k, ok)
    \/ StepReport

SpecSteps == InitSteps /\ [][NextSteps]_vars

\* the loop with the scheduling of the runtime: a call that can return does
SpecStepsFair == SpecSteps /\ WF_vars(NextSteps)

\* ================================== the changed-file set of process_commit
\* Text is a sequence of characters.  A patch is what diff_tree_to_tree finds
\* between a commit and its first parent: per touched path the kind of change
\* and, for a text change, one content line of the hunk.
PlusB == <<"+", "+", "+", " ", "b", "/">>        \* "+++ b/"

MinusA == <<"-", "-", "-", " ", "a", "/">>       \* "--- a/"

DevNull == <<"/", "d", "e", "v", "/", "n", "u", "l", "l">>

PathOrder == <<<<"x">>, <<"y">>>>

Paths == Range(PathOrder)

\* the text of a content line: plain, or one that reads like a file header
\* once the origin character is put in front of it
LineTexts == {<<"z">>,
              <<"+", "+", " ", "b", "/", "z">>,
              <<"-", "-", " ", "a", "/", "z">>}

Origins == {"+", "-", " "}

\* a text change with a hunk, a binary change (a notice, no hunk) and a change
\* of the file mode alone (a file header without the ---/+++ pair)
Kinds == {"modified", "added", "deleted", "binary", "mode"}

HasHunk(kind) == kind \in {"modified", "added", "deleted"}

Deltas ==
    {d \in [path : Paths, kind : Kinds, origin : Origins, text : LineTexts] :
        /\ ~HasHunk(d.kind) => d.origin = " " /\ d.text = <<"z">>
        /\ d.kind = "added" => d.origin = "+"
        /\ d.kind = "deleted" => d.origin = "-"}

\* one delta for every path of a set of touched paths
Patches ==
    UNION {{{f[p] : p \in S} : f \in {g \in [S -> Deltas] : \A p \in S : g[p].path = p}} :
             S \in SUBSET Paths}

\* the lines diff.print(DiffFormat::Patch, ..) hands to the callback for one
\* delta, each behind the prefix the callback chooses for its origin: none for
\* file header, hunk header and binary notice, the origin for a content line
DeltaLines(d) ==
    LET git == <<"d", "i", "f", "f", " ">> \o d.path
        old == IF d.kind = "added" THEN <<"-", "-", "-", " ">> \o DevNull
               ELSE MinusA \o d.path
        new == IF d.kind = "deleted" THEN <<"+", "+", "+", " ">> \o DevNull
               ELSE PlusB \o d.path
    IN  IF HasHunk(d.kind)
        THEN <<git, old, new, <<"@", "@">>, <<d.origin>> \o d.text>>
        ELSE IF d.kind = "binary"
        THEN <<git, <<"B", "i", "n", "a", "r", "y", " ">> \o d.path>>
        ELSE <<git>>

\* the deltas of a diff come sorted by path
RECURSIVE DiffFrom(_, _)
DiffFrom(P, i) ==
    IF i > Len(PathOrder) THEN <<>>
    ELSE LET here == {d \in P : d.path = PathOrder[i]}
         IN  (IF here = {} THEN <<>> ELSE DeltaLines(CHOOSE d \in here : TRUE))
             \o DiffFrom(P, i + 1)

get_diff(P) == DiffFrom(P, 1)

starts_with(l, pat) == Len(l) >= Len(pat) /\ SubSeq(l, 1, Len(pat)) = pat

\* str::replace(pat, ""): every occurrence of pat is taken out, left to right
RECURSIVE replace(_, _)
replace(l, pat) ==
    IF l = <<>> THEN <<>>
    ELSE IF starts_with(l, pat) THEN replace(SubSeq(l, Len(pat) + 1, Len(l)), pat)
    ELSE <<l[1]>> \o replace(Tail(l), pat)

\* context.rs 40-46: filter, map, collect into a HashSet
changed_files(diff) ==
    {replace(replace(diff[i], PlusB), MinusA) :
        i \in {k \in 1..Len(diff) : starts_with(diff[k], PlusB) \/ starts_with(diff[k], MinusA)}}

InitDiff ==
    /\ Parked
    /\ global = {}
    /\ ttl = <<>>
    /\ now = 0
    /\ \E P \in Patches : io = [op |-> "commit", patch |-> P, diff |-> <<>>, files |-> {}]

ProcessDiff ==
    /\ io.op = "commit"
    /\ io' = [io EXCEPT !.op = "process_commit",
                        !.diff = get_diff(io.patch),
                        !.files = changed_files(get_diff(io.patch))]
    /\ UNCHANGED <<sync_vars, global, ttl, now>>

NextDiff == ProcessDiff

SpecDiff == InitDiff /\ [][NextDiff]_vars

\* ======================================= init and the post-commit hook
\* The files the setup commands look at, kept in io: `dir` (.contexthub
\* exists), `config` (.contexthub/config.json exists) and `hook`, the content
\* of hooks/post-commit; `was` and `was2` are the hook before the last command
\* and before the one before it, `last` the command before the last one.
OwnHook == "contexthub"       \* the script install_hook writes

\* absent, ContextHub's script, somebody else's script, and somebody else's
\* script whose text mentions ContextHub (a user's wrapper around the sync)
HookContents == {"absent", OwnHook, "foreign", "foreign_marked"}

\* content.contains("ContextHub")
contains_marker(hook) == hook \in {OwnHook, "foreign_marked"}

is_initialized(f) == f.config

\* hook.rs 41-51
uninstall_hook(hook) ==
    IF hook # "absent" /\ contains_marker(hook) THEN "absent" ELSE hook

install_hook(hook) == OwnHook

Files(f, op, ret, dir, config, hook) ==
    [op |-> op, ret |-> ret, dir |-> dir, config |-> config, hook |-> hook,
     was |-> f.hook, was2 |-> f.was, last |-> f.op]

InitSetup ==
    /\ Parked
    /\ global = {}
    /\ ttl = <<>>
    /\ now = 0
    /\ \E h \in HookContents :
          io = [op |-> "none", ret |-> "ok", dir |-> FALSE, config |-> FALSE,
                hook |-> h, was |-> h, was2 |-> h, last |-> "none"]

\* init.rs 10-207.  `stops`: a `?` between create_dir_all and config.save
\* fires (database, .gitignore, a prompt), or the wizard is interrupted there;
\* `hook`: the answer to "Enable auto-sync hook?"
InitRepo(stops, hook) ==
    /\ IF io.dir
       THEN io' = Files(io, "init", "ok", io.dir, io.config, io.hook)
       ELSE IF stops
       THEN io' = Files(io, "init", "err", TRUE, io.config, io.hook)
       ELSE io' = Files(io, "init", "ok", TRUE, TRUE,
                        IF hook THEN install_hook(io.hook) ELSE io.hook)
    /\ UNCHANGED <<sync_vars, global, ttl, now>>

\* main.rs 204-216 with require_init
HookInstall ==
    /\ IF is_initialized(io)
       THEN io' = Files(io, "hook_install", "ok", io.dir, io.config, install_hook(io.hook))
       ELSE io' = Files(io, "hook_install", "err", io.dir, io.config, io.hook)
    /\ UNCHANGED <<sync_vars, global, ttl, now>>

HookUninstall ==
    /\ IF is_initialized(io)
       THEN io' = Files(io, "hook_uninstall", "ok", io.dir, io.config, uninstall_hook(io.hook))
       ELSE io' = Files(io, "hook_uninstall", "err", io.dir, io.config, io.hook)
    /\ UNCHANGED <<sync_vars, global, ttl, now>>

\* the user writes, edits or removes hooks/post-commit
EditHook(h) ==
    /\ h # OwnHook
    /\ h # io.hook
    /\ io' = Files(io, "edit", "ok", io.dir, io.config, h)
    /\ UNCHANGED <<sync_vars, global, ttl, now>>

NextSetup ==
    \/ \E stops \in BOOLEAN, hook \in BOOLEAN : InitRepo(stops, hook)
    \/ HookInstall
    \/ HookUninstall
    \/ \E h \in HookContents : EditHook(h)

SpecSetup == InitSetup /\ [][NextSetup]_vars

\* ================================== sync invocations that share the store
\* hook.rs 8-17 and main.rs 137-148: every commit made with the hook installed
\* starts `contexthub sync --last 1` in the background, and the user can run
\* `contexthub sync --last n` at any time.  Each invocation is a process of
\* its own with its own connection (storage.rs 35-41: WAL, busy_timeout) and
\* no lock of the application; a step below is one store call, one probe or
\* one extraction.  io holds the number of commits made and every process.
MaxProcs == 2        \* sync processes in one behaviour

Procs == 1..MaxProcs

HookLast == 1                      \* hook.rs: contexthub sync --last 1 &

\* get_commit_history with HEAD at `head`
get_commits(head, limit) == {Take(w, limit) : w \in Revwalk(Reach(head))}

NoProc ==
    [pc |-> "none", hook |-> FALSE, last |-> 0, cands |-> <<>>, kept |-> <<>>,
     k |-> 1, ctx |-> NoSummary, extracted |-> <<>>, stored |-> {},
     clean |-> TRUE]

parked_vars == <<repo, pc, commits, idx, skipped, count, result, hist, syncs>>

InitHook ==
    /\ Parked
    /\ faults = 0
    /\ global \in {{}, store_global_context({}, 1, "s1")}
    /\ ttl = <<>>
    /\ now = 0
    /\ io = [op |-> "hook", head |-> 1, procs |-> [p \in Procs |-> NoProc]]

SetProc(p, q) == io' = [io EXCEPT !.procs[p] = q]

\* the first process slot not yet used
FreeProc(p) ==
    /\ io.procs[p].pc = "none"
    /\ \A q \in 1..(p - 1) : io.procs[q].pc # "none"

\* `git commit` in the initialized repository: HEAD moves, the post-commit
\* hook finds .contexthub and puts a sync of the last commit in the background
HookCommit ==
    /\ io.head < NumCommits
    /\ \E p \in Procs :
          /\ FreeProc(p)
          /\ io' = [io EXCEPT !.head = @ + 1,
                              !.procs[p] = [NoProc EXCEPT !.pc = "queued",
                                                          !.hook = TRUE,
                                                          !.last = HookLast]]
    /\ UNCHANGED <<parked_vars, faults, global, ttl, now>>

\* `contexthub sync --last n` typed by the user
UserSync(n) ==
    /\ \E p \in Procs :
          /\ FreeProc(p)
          /\ SetProc(p, [NoProc EXCEPT !.pc = "queued", !.last = n])
    /\ UNCHANGED <<parked_vars, faults, global, ttl, now>>

\* main.rs 139-143 and sync.rs 14-31: the process starts, cleans the TTL
\* table and resolves its candidates at the HEAD of that moment (the walk
\* reads the repository only, so it is taken together with the cleanup)
Launch(p, ok) ==
    LET q == io.procs[p] IN
    /\ q.pc = "queued"
    /\ ~ok => faults < MaxFaults
    /\ faults' = IF ok THEN faults ELSE faults + 1
    /\ ttl' = IF ok THEN cleanup_expired_ttl(ttl) ELSE ttl
    /\ \E w \in get_commits(io.head, q.last) :
          SetProc(p, IF ok THEN [q EXCEPT !.pc = "dedup", !.cands = Reverse(w)]
                     ELSE [q EXCEPT !.pc = "done", !.clean = FALSE])
    /\ UNCHANGED <<parked_vars, global, now>>

\* sync.rs 35: one has_commit(..).unwrap_or(false) of the retain, and after
\* the last one the test of sync.rs 42
HasCommitStep(p, fails) ==
    LET q == io.procs[p]
        c == q.cands[q.k]
        kept == IF fails \/ ~has_commit(global, c) THEN Append(q.kept, c) ELSE q.kept
        last == q.k = Len(q.cands)
    IN  /\ q.pc = "dedup"
        /\ fails => faults < MaxFaults
        /\ faults' = IF fails THEN faults + 1 ELSE faults
        /\ SetProc(p, [q EXCEPT !.kept = kept,
                                !.k = IF last THEN 1 ELSE q.k + 1,
                                !.pc = IF ~last THEN "dedup"
                                       ELSE IF kept = <<>> THEN "done" ELSE "probe",
                                !.clean = @ /\ ~fails])
        /\ UNCHANGED <<parked_vars, global, ttl, now>>

\* sync.rs 50-54: is_ollama_running
Probe(p, up) ==
    LET q == io.procs[p] IN
    /\ q.pc = "probe"
    /\ SetProc(p, [q EXCEPT !.pc = IF up THEN "extract" ELSE "done",
                            !.clean = @ /\ up])
    /\ UNCHANGED <<parked_vars, faults, global, ttl, now>>

\* the loop goes on to the next commit, or to the report
Advance(q) ==
    IF q.k < Len(q.kept) THEN [q EXCEPT !.k = @ + 1, !.pc = "extract"]
    ELSE [q EXCEPT !.pc = "report"]

\* context.rs 38-50: get_diff and extract_context of one commit
Extract(p, outcome, s) ==
    LET q == io.procs[p]
        c == q.kept[q.k]
    IN  /\ q.pc = "extract"
        /\ SetProc(p,
              IF outcome = "diff_err" THEN [Advance(q) EXCEPT !.clean = FALSE]
              ELSE IF outcome = "backend_err"
              THEN [Advance(q) EXCEPT !.clean = FALSE,
                                      !.extracted = Append(@, c)]
              ELSE [q EXCEPT !.pc = "store", !.ctx = s,
                             !.extracted = Append(@, c)])
        /\ UNCHANGED <<parked_vars, faults, global, ttl, now>>

\* context.rs 52-56: store_global_context(..)?
StoreGlobal(p, ok) ==
    LET q == io.procs[p]
        c == q.kept[q.k]
    IN  /\ q.pc = "store"
        /\ ~ok => faults < MaxFaults
        /\ faults' = IF ok THEN faults ELSE faults + 1
        /\ global' = IF ok THEN store_global_context(global, c, q.ctx) ELSE global
        /\ SetProc(p, IF ok THEN [q EXCEPT !.pc = "ttl", !.stored = @ \cup {c}]
                      ELSE [Advance(q) EXCEPT !.clean = FALSE])
        /\ UNCHANGED <<parked_vars, ttl, now>>

\* context.rs 58-62: store_ttl_memory(..)?
StoreTtl(p, ok) ==
    LET q == io.procs[p]
        c == q.kept[q.k]
    IN  /\ q.pc = "ttl"
        /\ ~ok => faults < MaxFaults
        /\ faults' = IF ok THEN faults ELSE faults + 1
        /\ ttl' = IF ok THEN store_ttl_memory(ttl, c, q.ctx, ConfigTtlDays) ELSE ttl
        /\ SetProc(p, [Advance(q) EXCEPT !.clean = @ /\ ok])
        /\ UNCHANGED <<parked_vars, global, now>>

\* sync.rs 73-78: get_context_count()? and the end of the process
Report(p, ok) ==
    LET q == io.procs[p] IN
    /\ q.pc = "report"
    /\ ~ok => faults < MaxFaults
    /\ faults' = IF ok THEN faults ELSE faults + 1
    /\ SetProc(p, [q EXCEPT !.pc = "done", !.clean = @ /\ ok])
    /\ UNCHANGED <<parked_vars, global, ttl, now>>

NextHook ==
    \/ HookCommit
    \/ \E n \in 1..2 : UserSync(n)
    \/ \E p \in Procs, ok \in BOOLEAN : Launch(p, ok)
    \/ \E p \in Procs, fails \in BOOLEAN : HasCommitStep(p, fails)
    \/ \E p \in Procs, up \in BOOLEAN : Probe(p, up)
    \/ \E p \in Procs, outcome \in {"diff_err", "backend_err", "ok"},
          s \in Summaries : Extract(p, outcome, s)
    \/ \E p \in Procs, ok \in BOOLEAN : StoreGlobal(p, ok)
    \/ \E p \in Procs, ok \in BOOLEAN : StoreTtl(p, ok)
    \/ \E p \in Procs, ok \in BOOLEAN : Report(p, ok)

SpecHook == InitHook /\ [][NextHook]_vars

\* ================================================================= claims
RowsOf(g, c) == {r \in g : r.commit_hash = c}

InSync == pc \in {"preflight", "loop", "done"}

\* the TTL rows this sync invocation has appended
NewTtl == SubSeq(ttl, Len(ttl0) + 1, Len(ttl))

IsOk(e) == e.outcome = "ok"

OkLog == SelectSeq(log, IsOk)

Failures == {i \in 1..Len(log) : log[i].outcome # "ok"}

\* C1: a sync over the same commit range as the sync before it, which left
\* every candidate stored, skips every candidate: no process_commit call, the
\* skipped count is the number of candidates, and global_context and
\* ttl_memory are as they were when sync_context was entered.
C1_SecondSyncSkipsAll ==
    (/\ pc = "done"
     /\ result = "ok"
     /\ prev.cands # <<>>
     /\ prev.stored
     /\ Range(cands) = Range(prev.cands))
    => (/\ log = <<>>
        /\ skipped = Len(cands)
        /\ global = global0
        /\ ttl = ttl0)

\* C2: global_context never holds two rows with the same commit_hash, and a
\* step that rewrites the row of a hash that was already stored leaves the
\* number of rows unchanged.
C2_UniqueCommitHash ==
    /\ [](\A r1 \in global : \A r2 \in global :
             r1.commit_hash = r2.commit_hash => r1 = r2)
    /\ [][\A c \in Commits :
             (has_commit(global, c) /\ RowsOf(global', c) # RowsOf(global, c))
             => Cardinality(global') = Cardinality(global)]_vars

\* a hash that was stored when the sync began has been stored again by it
C2_Witness ==
    /\ InSync
    /\ \E i \in 1..Len(log) :
          /\ DurableWritten(log[i].outcome)
          /\ has_commit(global0, log[i].commit)
          /\ \E r \in RowsOf(global, log[i].commit) : r \notin global0

\* C3: a sync that stores three new commits into an empty store passes no
\* previous summary to the first extraction, the first commit's summary to
\* the second and the second commit's summary to the third.
C3_ChainingOrder ==
    (/\ pc = "done"
     /\ result = "ok"
     /\ global0 = {}
     /\ Len(log) = 3
     /\ \A i \in 1..3 : log[i].outcome = "ok")
    => (/\ log[1].previous = NoSummary
        /\ log[2].previous = log[1].summary
        /\ log[3].previous = log[2].summary)

\* C4: when the only failures of a sync are backend errors of the extraction,
\* the loop still visits every commit of the batch in order, every commit
\* whose extraction succeeded has its durable row with the extracted summary,
\* and the sync wrote no row for a commit whose extraction failed.
C4_FailureIsolation ==
    (/\ pc = "done"
     /\ Failures # {}
     /\ \A i \in Failures : log[i].outcome = "backend_err")
    => (/\ Len(log) = Len(commits)
        /\ \A i \in 1..Len(log) :
              /\ log[i].commit = commits[i]
              /\ Extracted(log[i].outcome) =>
                    \E r \in global : /\ r.commit_hash = log[i].commit
                                      /\ r.context_summary = log[i].summary
              /\ ~Extracted(log[i].outcome) =>
                    RowsOf(global, log[i].commit) = RowsOf(global0, log[i].commit))

\* three new commits, the second fails: one failure, two durable rows
C4_Witness ==
    /\ pc = "done"
    /\ global0 = {}
    /\ Len(log) = 3
    /\ log[1].outcome = "ok"
    /\ log[2].outcome = "backend_err"
    /\ log[3].outcome = "ok"
    /\ Cardinality(Failures) = 1
    /\ Cardinality(global) = 2

\* C5: the candidates are held oldest first (no commit before one of its
\* ancestors), the dedup filter keeps their relative order, and the loop
\* processes the batch in that order, so that no commit is processed before
\* an ancestor of it that is in the same batch.
C5_OldestFirst ==
    /\ \A i \in 1..Len(cands) : \A j \in 1..Len(cands) :
          i < j => cands[j] \notin Ancestors(cands[i])
    /\ \A i \in 1..Len(commits) : \A j \in 1..Len(commits) :
          i < j => \E k \in 1..Len(cands) : \E l \in 1..Len(cands) :
                      k < l /\ cands[k] = commits[i] /\ cands[l] = commits[j]
    /\ Len(log) <= Len(commits)
    /\ \A i \in 1..Len(log) : log[i].commit = commits[i]
    /\ \A i \in 1..Len(log) : \A j \in 1..Len(log) :
          i < j => log[j].commit \notin Ancestors(log[i].commit)

\* a batch that holds a commit and an ancestor of it, after a dedup that
\* dropped a candidate, has been processed
C5_Witness ==
    /\ pc = "done"
    /\ skipped > 0
    /\ Len(log) >= 2
    /\ log[1].commit \in Ancestors(log[2].commit)
    /\ log[1].extracted /\ log[2].extracted

\* C6: a candidate for which has_commit answered true is not in the batch,
\* has no process_commit call and keeps its row as it was, and `skipped` is
\* the number of those candidates.
C6_SkipStored ==
    /\ skipped = Cardinality(hc)
    /\ \A c \in hc :
          /\ has_commit(global0, c)
          /\ c \notin Range(commits)
          /\ \A i \in 1..Len(log) : log[i].commit # c
          /\ RowsOf(global, c) = RowsOf(global0, c)

\* a sync that skipped a stored candidate and processed another one
C6_Witness ==
    /\ pc = "done"
    /\ hc # {}
    /\ skipped > 0
    /\ \E i \in 1..Len(log) : log[i].outcome = "ok"

\* C7: a sync whose reachability probe failed has returned with commits left
\* to process, no process_commit call, and global_context and ttl_memory as
\* they were when sync_context was entered.
C7_PreflightAborts ==
    (result = "err_backend" /\ pc # "idle")
    => (/\ pc = "done"
        /\ commits # <<>>
        /\ log = <<>>
        /\ global = global0
        /\ ttl = ttl0)

\* the probe failed on a store that already held rows of both tables
C7_Witness ==
    /\ pc = "done"
    /\ result = "err_backend"
    /\ commits # <<>>
    /\ global # {}
    /\ ttl # <<>>

\* C8: a commit that was not stored and whose processing failed, for whatever
\* reason, has no durable row.
C8_FailedLeavesNoRecord ==
    InSync =>
       \A i \in Failures :
          ~has_commit(global0, log[i].commit) => ~has_commit(global, log[i].commit)

\* C9 as stated: for every hash, the TTL rows this sync appended are as many
\* as its successful extractions.
C9_TtlPerExtraction ==
    InSync =>
       \A c \in Commits :
          Cardinality({k \in 1..Len(NewTtl) : NewTtl[k].commit_hash = c})
          = Cardinality({i \in 1..Len(log) :
                            log[i].commit = c /\ Extracted(log[i].outcome)})

\* C9 amended: the TTL rows this sync appended are, in order, one per
\* process_commit call that returned Ok, for the same hash and with the stored
\* summary as content, and that hash has exactly one durable row, holding that
\* summary; a call that failed appended none.
C9_TtlPerSuccess ==
    InSync =>
       /\ Len(NewTtl) = Len(OkLog)
       /\ \A k \in 1..Len(OkLog) :
             /\ NewTtl[k].commit_hash = OkLog[k].commit
             /\ NewTtl[k].content = OkLog[k].summary
             /\ Cardinality(RowsOf(global, OkLog[k].commit)) = 1
             /\ \A r \in RowsOf(global, OkLog[k].commit) :
                   r.context_summary = OkLog[k].summary

\* a sync with a stored commit, a backend error and a durable write that failed
C9_Witness ==
    /\ pc = "done"
    /\ Len(OkLog) >= 1
    /\ \E i \in Failures : log[i].outcome = "backend_err"
    /\ \E i \in Failures : log[i].outcome = "store_err"

\* C10: the previous summary of every extraction is none or the summary
\* stored for an ancestor of the extracted commit.
C10_PreviousIsAncestor ==
    InSync =>
       \A i \in 1..Len(log) :
          log[i].extracted =>
             \/ log[i].previous = NoSummary
             \/ \E r \in global :
                   /\ r.commit_hash \in Ancestors(log[i].commit)
                   /\ r.context_summary = log[i].previous

\* ------------------------------------------------ the TTL table (SpecTtl)
IdsOf(rows) == {r.id : r \in Range(rows)}

\* the stored row a returned TtlMemory was built from
StoredRow(id) == CHOOSE row \in Range(ttl) : row.id = id

IsRead == io.op = "get_ttl_memory"

\* C11: at any time now, ttl_memory returns exactly the TTL rows whose
\* expires_at is later than now, each once, newest-created first, and leaves
\* the table as it was.
C11_ReadReturnsUnexpired ==
    IsRead =>
        /\ ttl = io.before
        /\ IdsOf(io.ret) = {row.id : row \in {q \in Range(ttl) : q.expires_at > io.at}}
        /\ Len(io.ret) = Cardinality(IdsOf(io.ret))
        /\ \A k \in 1..(Len(io.ret) - 1) :
              StoredRow(io.ret[k].id).created_at >= StoredRow(io.ret[k + 1].id).created_at
        /\ \A k \in 1..Len(io.ret) :
              /\ io.ret[k].commit_hash = StoredRow(io.ret[k].id).commit_hash
              /\ io.ret[k].content = StoredRow(io.ret[k].id).content

\* C12: cleanup_expired_ttl at time now deletes exactly the rows with
\* expires_at <= now, returns how many those were, keeps every row with
\* expires_at > now and leaves the durable table unchanged.
C12_CleanupDeletesExpired ==
    io.op = "cleanup_expired_ttl" =>
        LET Live(row) == row.expires_at > io.at
            Dead(row) == row.expires_at <= io.at
        IN  /\ ttl = SelectSeq(io.before, Live)
            /\ io.ret = Len(SelectSeq(io.before, Dead))
            /\ global = io.durable

C16_StoreAppends ==
    /\ io.op = "store_ttl_memory" =>
          /\ io.ret = "ok"
          /\ Len(ttl) = Len(io.before) + 1
          /\ SubSeq(ttl, 1, Len(io.before)) = io.before
          /\ ttl[Len(ttl)].commit_hash = io.arg.hash
          /\ ttl[Len(ttl)].content = io.arg.content
          /\ ttl[Len(ttl)].expires_at = io.at + io.arg.days
          /\ ttl[Len(ttl)].id \notin IdsOf(io.before)
    /\ IsRead =>
          \A k \in 1..Len(io.ret) :
              StoredRow(io.ret[k].id).expires_at >= StoredRow(io.ret[k].id).created_at

\* ------------------------------------- store_global_context (SpecGlobal)
IsStoreGlobal == io.op = "store_global_context"

\* C14: a store on a hash that is already stored replaces the row: the one
\* row of that hash then holds the message, date, summary, files and payload
\* of this call, and the rows of other hashes are as they were.
C14_ReplaceKeepsNothing ==
    (IsStoreGlobal /\ has_commit(io.durable, io.arg.hash)) =>
        /\ Cardinality(RowsOf(global, io.arg.hash)) = 1
        /\ \A r \in RowsOf(global, io.arg.hash) :
              /\ r.commit_message = io.arg.message
              /\ r.commit_date = io.arg.date
              /\ r.context_summary = io.arg.summary
              /\ r.files_changed = io.arg.files
              /\ r.llm_extracted_context = io.arg.json
              /\ r \notin io.durable
        /\ global \ RowsOf(global, io.arg.hash)
              = io.durable \ RowsOf(io.durable, io.arg.hash)

\* a replacing call none of whose five values equals the stored row's
C14_Witness ==
    /\ IsStoreGlobal
    /\ \E old \in RowsOf(io.durable, io.arg.hash) :
          /\ old.commit_message # io.arg.message
          /\ old.commit_date # io.arg.date
          /\ old.context_summary # io.arg.summary
          /\ old.files_changed # io.arg.files
          /\ old.llm_extracted_context # io.arg.json
    /\ Cardinality(global) = 2

\* ------------------------------------------------------ the sync pipeline
\* C15: no step removes a commit hash from the durable table: has_commit(h),
\* once true, stays true, and the number of durable rows never decreases.
C15_HasCommitStable ==
    [][/\ \A c \in Commits : has_commit(global, c) => has_commit(global', c)
       /\ get_context_count(global') >= get_context_count(global)]_vars

\* a second sync has replaced a stored row, stored a new one and ended, and
\* the TTL table has been emptied by cleanup or clear while durable rows stay
C15_Witness ==
    /\ syncs = 2
    /\ pc = "done"
    /\ global0 # {}
    /\ \E c \in Commits : has_commit(global0, c) /\ RowsOf(global, c) # RowsOf(global0, c)
    /\ Cardinality(global) > Cardinality(global0)
    /\ ttl0 = <<>>

\* ------------------------------------------- the extractor (SpecExtract)
IsExtract == io.op = "extract_context"

Answered == IsExtract /\ io.http = "ok"

\* the text from the first "{" to the last "}", when the text has both in
\* that order
HasBraceSubstring(r) ==
    /\ \E i \in 1..Len(r) : r[i].k \in {"{", "obj"}
    /\ \E j \in 1..Len(r) : r[j].k \in {"}", "obj"}
    /\ \E i, j \in 1..Len(r) : i <= j /\ r[i].k \in {"{", "obj"} /\ r[j].k \in {"}", "obj"}

BraceSubstring(r) ==
    LET i == CHOOSE a \in 1..Len(r) :
                 r[a].k \in {"{", "obj"} /\ \A b \in 1..(a - 1) : r[b].k \notin {"{", "obj"}
        j == CHOOSE a \in 1..Len(r) :
                 r[a].k \in {"}", "obj"} /\ \A b \in (a + 1)..Len(r) : r[b].k \notin {"}", "obj"}
    IN  SubSeq(r, i, j)

\* the brace substring is one JSON object
IsObject(r) ==
    /\ HasBraceSubstring(r)
    /\ Len(BraceSubstring(r)) = 1
    /\ BraceSubstring(r)[1].k = "obj"
    /\ BraceSubstring(r)[1].syntax = "valid"

TheObject(r) == BraceSubstring(r)[1]

\* ... of the expected shape: summary a string, the three collections lists
\* of strings when present, impact a string when present
IsExpectedShape(r) ==
    /\ IsObject(r)
    /\ TheObject(r).summary \notin {Absent, WrongType}
    /\ TheObject(r).files_changed # WrongType
    /\ TheObject(r).key_details # WrongType
    /\ TheObject(r).technologies # WrongType
    /\ TheObject(r).impact # WrongType

RECURSIVE FirstCharsBytes(_, _, _)
\* the bytes the first `left` characters of r take, from piece i on
FirstCharsBytes(r, i, left) ==
    IF i > Len(r) \/ left = 0 THEN 0
    ELSE LET take == IF left < r[i].n THEN left ELSE r[i].n
         IN  take * r[i].w + FirstCharsBytes(r, i + 1, left - take)

EmptyCollections(ctx) ==
    ctx.files_changed = <<>> /\ ctx.key_details = <<>> /\ ctx.technologies = <<>>

\* C17: whatever the response text, extract returns a record; it fails only
\* when the request fails in transport (sending it, reading its body) or the
\* backend answers with a non-success status.
C17_ParsingNeverFails ==
    IsExtract =>
        /\ io.http = "ok" => io.ret.kind = "ok"
        /\ io.ret.kind # "ok" => io.http \in {"send_err", "body_err", "status_err"}

\* C18: every returned record has impact high, medium or low, and an impact
\* that is absent or empty in the parsed JSON becomes medium.
C18_ImpactIsLevel ==
    (IsExtract /\ io.ret.kind = "ok") =>
        /\ io.ret.ctx.impact \in {"high", "medium", "low"}
        /\ (IsExpectedShape(io.response) /\ TheObject(io.response).impact \in {Absent, ""})
              => io.ret.ctx.impact = "medium"

\* C19: a non-empty response without a parseable object of the expected shape
\* yields the fixed prefix followed by the first 200 characters of the
\* response, empty collections and impact low; an empty response yields the
\* sentinel summary, empty collections and impact low.
C19_FallbackRecord ==
    Answered =>
        /\ io.response = <<>> =>
              /\ io.ret.kind = "ok"
              /\ io.ret.ctx.summary = Str("Empty response from LLM", 0)
              /\ EmptyCollections(io.ret.ctx)
              /\ io.ret.ctx.impact = "low"
        /\ (io.response # <<>> /\ ~IsExpectedShape(io.response)) =>
              /\ io.ret.kind = "ok"
              /\ io.ret.ctx.summary
                    = Str("Raw LLM response: ", FirstCharsBytes(io.response, 1, FallbackLimit))
              /\ EmptyCollections(io.ret.ctx)
              /\ io.ret.ctx.impact = "low"

StructuredFrom(o, ctx) ==
    /\ ctx.summary = Str(o.summary, 0)
    /\ ctx.files_changed = (IF o.files_changed = "one" THEN <<"item">> ELSE <<>>)
    /\ ctx.key_details = (IF o.key_details = "one" THEN <<"item">> ELSE <<>>)
    /\ ctx.technologies = (IF o.technologies = "one" THEN <<"item">> ELSE <<>>)

\* C20 (as stated): when the brace substring parses as a JSON object with a
\* summary member, that summary and the parsed collections are returned,
\* whatever surrounds the braces.
C20_ObjectWithSummary ==
    (Answered /\ IsObject(io.response) /\ TheObject(io.response).summary # Absent) =>
        /\ io.ret.kind = "ok"
        /\ StructuredFrom(TheObject(io.response), io.ret.ctx)

\* C20 (amended): when the brace substring parses as an object of the
\* expected shape, its summary and collections are returned (absent ones
\* empty), whatever surrounds the braces; the sentinel is returned exactly
\* for the empty response, and the prefixed fallback only for a non-empty
\* response whose brace substring is not of the expected shape.
C20_ExpectedShape ==
    Answered =>
        /\ IsExpectedShape(io.response) =>
              io.ret.kind = "ok" /\ StructuredFrom(TheObject(io.response), io.ret.ctx)
        /\ io.response = <<>> =>
              io.ret.kind = "ok" /\ io.ret.ctx.summary = Str("Empty response from LLM", 0)
        /\ (io.ret.kind = "ok" /\ io.ret.ctx.summary.lit = "Raw LLM response: ") =>
              io.response # <<>> /\ ~IsExpectedShape(io.response)
        /\ (io.ret.kind = "ok" /\ io.ret.ctx.summary.lit = "Empty response from LLM") =>
              io.response = <<>>

\* an object of the expected shape between two runs of text, two of its
\* collections absent, returned as the structured record
C20_Witness ==
    /\ Answered
    /\ Len(io.response) = 3
    /\ io.response[1].k = "text" /\ io.response[1].w = 3
    /\ io.response[3].k = "text" /\ io.response[3].n > FallbackLimit
    /\ IsExpectedShape(io.response)
    /\ io.response[2].files_changed = Absent
    /\ io.response[2].technologies = Absent
    /\ io.response[2].key_details = "one"
    /\ io.ret.kind = "ok"
    /\ io.ret.ctx.summary = Str("sum", 0)
    /\ io.ret.ctx.files_changed = <<>>
    /\ io.ret.ctx.key_details = <<"item">>

IsRange == io.op = "get_commit_range" /\ io.ret = "ok"

IsHistory == io.op = "get_commit_history"

NoDuplicates(s) == \A i, j \in 1..Len(s) : s[i] = s[j] => i = j

\* every commit of the list stands before all of its ancestors in the list
DescendantsFirst(s) == \A i, j \in 1..Len(s) : s[j] \in Ancestors(s[i]) => i < j

\* no commit is dated before one of its parents
DatesFollowParents == \A c \in Commits : \A p \in parents[c] : date[p] <= date[c]

DateDescending(s) == \A i, j \in 1..Len(s) : i < j => date[s[j]] <= date[s[i]]

\* C21: commit_range(from, to) returns exactly the commits that `to` reaches
\* and that are neither `from` nor reached by `from`, each once, newest first:
\* a commit before its ancestors, and by descending timestamp wherever the
\* timestamps follow the parent relation.  On the linear history 1 <- 2 <- 3,
\* commit_range(1, 3) is 3 then 2, without 1.
C21_RangeIsDifference ==
    IsRange =>
        /\ Range(io.list) = {c \in Commits : /\ c \in {io.to} \cup Ancestors(io.to)
                                             /\ c # io.from
                                             /\ c \notin Ancestors(io.from)}
        /\ NoDuplicates(io.list)
        /\ DescendantsFirst(io.list)
        /\ DatesFollowParents => DateDescending(io.list)
        /\ (parents = [c \in Commits |-> IF c = 1 THEN {} ELSE {c - 1}]
              /\ io.from = 1 /\ io.to = NumCommits)
           => io.list = [i \in 1..(NumCommits - 1) |-> NumCommits + 1 - i]

\* the range 1..3 of a linear history has been walked
C21_Witness ==
    /\ IsRange
    /\ parents = [c \in Commits |-> IF c = 1 THEN {} ELSE {c - 1}]
    /\ io.from = 1 /\ io.to = NumCommits
    /\ Len(io.list) = NumCommits - 1

\* C23: commit_history(limit) returns at most limit commits, all reached from
\* the head, each once, every commit before all of its ancestors in the list
\* whatever the timestamps; commit_history(0) returns no commit.
C23_HistoryTopological ==
    IsHistory =>
        /\ Len(io.list) <= io.limit
        /\ Range(io.list) \subseteq Reach(HeadCommit)
        /\ NoDuplicates(io.list)
        /\ DescendantsFirst(io.list)
        /\ io.limit = 0 => io.list = <<>>

\* a history of a head whose ancestor is dated after it, and one of limit 0
C23_Witness ==
    /\ IsHistory
    /\ Len(io.list) >= 2
    /\ \E i, j \in 1..Len(io.list) :
          /\ io.list[j] \in Ancestors(io.list[i])
          /\ date[io.list[j]] > date[io.list[i]]

\* C29: clear_ttl_memory deletes every TTL row, expired or not: right after
\* it ttl_memory returns the empty sequence and cleanup_expired_ttl returns 0,
\* and the durable table is as it was before the call.
C29_ClearDeletesAll ==
    io.op = "clear_ttl_memory" =>
        /\ ttl = <<>>
        /\ \A rows \in get_ttl_memory(ttl, now) : rows = <<>>
        /\ get_ttl_memory(ttl, now) # {}
        /\ cleanup_expired_ttl_deleted(ttl) = 0
        /\ global = io.durable

\* the cleared table held a row past its expiry and a row before it, and the
\* durable table a row
C29_Witness ==
    /\ io.op = "clear_ttl_memory"
    /\ \E i, j \in 1..Len(io.before) :
          /\ io.before[i].expires_at <= io.at
          /\ io.before[j].expires_at > io.at
    /\ io.durable # {}
    /\ ttl = <<>>

\* C24: latest_context_summary returns the summary of a durable entry whose
\* commit_date is the greatest of the table, and returns none exactly when the
\* table is empty.
C24_LatestSummary ==
    io.op = "get_latest_context_summary" =>
        /\ io.ret = NoSummary <=> io.durable = {}
        /\ io.durable # {} =>
              \E r \in io.durable :
                  /\ \A q \in io.durable : q.commit_date <= r.commit_date
                  /\ io.ret = r.context_summary

IsSync == io.op = "sync"

\* C22: a sync started with a starting reference that does not resolve to a
\* known commit ends at once with the error of commit_range: no commit is
\* attempted, nothing is extracted, and global_context and ttl_memory are as
\* they were when sync_context was entered.
C22_BadRefAborts ==
    (IsSync /\ io.from # NoRef /\ io.from \notin Commits) =>
        /\ pc = "done"
        /\ result = "err_ref"
        /\ commits = <<>>
        /\ log = <<>>
        /\ global = global0
        /\ ttl = ttl0

\* a sync with an unknown reference on a store that an earlier sync filled
C22_Witness ==
    /\ IsSync /\ io.from = BadRef
    /\ result = "err_ref"
    /\ global # {}
    /\ ttl # <<>>

\* C30: the candidates of a sync are chosen by the first rule that matches:
\* with a starting reference, commit_range(from, head), whatever the count;
\* otherwise with a count, commit_history(count); otherwise commit_history of
\* the configured default window.  (cands is the walk, oldest first.)
C30_FirstRuleWins ==
    (IsSync /\ result # "err_ref") =>
        LET walk == [i \in 1..Len(cands) |-> cands[Len(cands) + 1 - i]]
            Walks(S) == {w \in Perms(S) : IsWalk(w, S)}
            history == Walks({HeadCommit} \cup Ancestors(HeadCommit))
            window == IF io.last # NoCount THEN io.last ELSE DefaultCommitRange
        IN  IF io.from # NoRef
            THEN walk \in Walks(({HeadCommit} \cup Ancestors(HeadCommit))
                                  \ ({io.from} \cup Ancestors(io.from)))
            ELSE \E w \in history :
                    /\ Len(walk) = IF window < Len(w) THEN window ELSE Len(w)
                    /\ \A i \in 1..Len(walk) : walk[i] = w[i]

\* a sync given both a starting reference and a smaller count took the whole
\* range of the reference
C30_Witness ==
    /\ IsSync
    /\ io.from \in Commits
    /\ io.last \in 0..(NumCommits - 1)
    /\ Len(cands) > io.last
    /\ Len(cands) < Cardinality(Reach(HeadCommit))

\* C28: sync_status changes no row of global_context or of ttl_memory and
\* issues no extraction request, with the backend reachable or not and
\* whether it ends with its report or with an error.
C28_StatusReadsOnly ==
    io.op = "get_sync_status" =>
        /\ global = io.durable
        /\ ttl = io.before
        /\ \A k \in 1..Len(io.ret.requests) : io.ret.requests[k] # "POST /api/generate"
        /\ log = <<>>

\* a status taken with the backend down over a durable row and a TTL table
\* that holds a row past its expiry
C28_Witness ==
    /\ io.op = "get_sync_status"
    /\ io.ret.result = "ok"
    /\ ~io.arg.up
    /\ io.durable # {}
    /\ \E i \in 1..Len(io.before) : io.before[i].expires_at <= io.at
    /\ ttl = io.before

InProgress(pos) == {k \in DOMAIN pos : pos[k] \in {"diff", "extract", "store", "ttl"}}

\* C25: within one sync at most one commit is being processed: while a commit
\* is at its diff, its extraction, its durable write or its TTL write, every
\* commit before it has completed (with success or error) and no commit after
\* it has begun; at most one extraction is in flight.
C25_OneCommitAtATime ==
    io.op = "loop" =>
        /\ Cardinality(InProgress(io.pos)) <= 1
        /\ Cardinality({k \in DOMAIN io.pos : io.pos[k] = "extract"}) <= 1
        /\ \A k \in DOMAIN io.pos :
              io.pos[k] # "todo" =>
                  /\ \A j \in 1..(k - 1) : io.pos[j] \in {"ok", "err"}
                  /\ \A j \in DOMAIN io.pos : j > k /\ k \in InProgress(io.pos)
                                                 => io.pos[j] = "todo"

\* the extraction of the second commit is in flight after the first commit
\* failed, and a third commit waits
C25_Witness ==
    /\ io.op = "loop"
    /\ Len(commits) = NumCommits
    /\ io.pos[1] = "err"
    /\ io.pos[2] = "extract"
    /\ io.pos[NumCommits] = "todo"

Attempted(k) == io.calls[k]

\* C26: a sync never calls process_commit twice for one commit, a commit that
\* completed (with success or error) keeps its outcome, and when every call
\* returns the loop runs out and the report is reached with every commit of
\* the batch attempted exactly once.
C26_EachCommitOnce ==
    /\ [](\A k \in 1..Len(commits) : Attempted(k) <= 1)
    /\ [][\A k \in 1..Len(commits) :
             Finished(io.pos, k) => io'.pos[k] = io.pos[k] /\ io'.calls[k] = io.calls[k]]_vars
    /\ <>(/\ io.count # NoCount
          /\ \A k \in 1..Len(commits) : Finished(io.pos, k) /\ Attempted(k) = 1)

\* the report of a batch of NumCommits commits whose first commit failed
C26_Witness ==
    /\ io.op = "loop"
    /\ io.count # NoCount
    /\ Len(commits) = NumCommits
    /\ io.pos[1] = "err"
    /\ io.pos[NumCommits] = "ok"
    /\ \A k \in 1..Len(commits) : Attempted(k) = 1

LoopEnded == pc = "done" /\ commits # <<>> /\ result \in {"ok", "err_store"}

IsStored(e) == e.outcome \in {"ok", "ttl_err"}

\* C27: when the per-commit loop has ended, sync reports the number of rows of
\* global_context, which is the number at the start of the sync plus the
\* number of commits this sync stored, whatever number of commits failed, and
\* returns success, also when every commit of the batch failed.
C27_CountReported ==
    LoopEnded =>
        /\ result = "ok"
        /\ count = Cardinality(global0) + Len(SelectSeq(log, IsStored))

\* the candidates of the running or last sync were resolved
Resolved == syncs > 0 /\ pc # "idle" /\ result # "err_ref"

AllStored == \A c \in Range(cands) : has_commit(global0, c)

\* C36: a sync whose candidate list is empty, or whose candidates all have a
\* durable row, returns success at once: the backend is not probed, no commit
\* is attempted, and global_context and ttl_memory are as they were when
\* sync_context was entered.
C36_NothingToDo ==
    (Resolved /\ AllStored) =>
        /\ pc = "done"
        /\ result = "ok"
        /\ commits = <<>>
        /\ log = <<>>
        /\ global = global0
        /\ ttl = ttl0

LastStored(g) == CHOOSE r \in g : \A q \in g : q.id <= r.id

\* C33: on a table that holds a row, get_latest_context_summary returns the
\* summary of the row stored last and get_last_processed_commit returns its
\* commit hash, whatever the order of the commit dates of the stored rows.
C33_LatestIsLastStored ==
    /\ (io.op = "get_latest_context_summary" /\ io.durable # {})
          => io.ret = LastStored(io.durable).context_summary
    /\ (io.op = "get_last_processed_commit" /\ io.durable # {})
          => io.ret = LastStored(io.durable).commit_hash

\* C32: the changed-file set process_commit derives from the diff of a commit
\* is exactly the set of paths the commit touched: every touched path is in
\* it, and nothing comes from the text of a content line of the patch.
C32_FilesAreTouchedPaths ==
    io.op = "process_commit" => io.files = {d.path : d \in io.patch}

\* C38: whenever init_repo returns success, is_initialized holds, so the
\* commands guarded by require_init are accepted; an init that stopped between
\* creating .contexthub and saving the configuration is completed by the next
\* init.
C38_InitInitializes ==
    (io.op = "init" /\ io.ret = "ok") => is_initialized(io)

IsForeign(hook) == hook \in {"foreign", "foreign_marked"}

\* C39: hook install and hook uninstall never remove or overwrite a
\* post-commit hook that ContextHub did not write, and an install followed by
\* an uninstall leaves the hook as it was before the install.
C39_ForeignHookKept ==
    /\ (io.op \in {"hook_install", "hook_uninstall"} /\ IsForeign(io.was))
          => io.hook = io.was
    /\ (io.op = "hook_uninstall" /\ io.ret = "ok" /\ io.last = "hook_install")
          => io.hook = io.was2

\* ---------------------------------------------------------------------------
\* C31: two sync invocations that run concurrently over the same commits,
\* each store call atomic: in every interleaving the durable table holds at
\* most one row per commit hash, and every commit an invocation stored
\* successfully has a durable row.
IsHook == io.op = "hook"

AllClean == \A p \in Procs : io.procs[p].clean

C31_OneRowPerHash ==
    IsHook =>
        /\ \A c \in Commits : Cardinality(RowsOf(global, c)) <= 1
        /\ \A p \in Procs : \A c \in io.procs[p].stored : has_commit(global, c)

\* both invocations found the same commit unstored, both wrote its durable
\* row without a failing call, and both have ended
C31_Witness ==
    /\ IsHook
    /\ AllClean
    /\ \A p \in Procs : io.procs[p].pc = "done"
    /\ \E c \in Commits :
          /\ \A p \in Procs : c \in io.procs[p].stored
          /\ Cardinality(RowsOf(global, c)) = 1

\* ---------------------------------------------------------------------------
\* C35: across two sync invocations that interleave on the same store, a
\* commit without a durable record is extracted by at most one of them and
\* gets at most one new TTL row (no call failing in either invocation).
ExtractedBy(c) == {p \in Procs : c \in Range(io.procs[p].extracted)}

TtlRowsOf(c) == {i \in 1..Len(ttl) : ttl[i].commit_hash = c}

C35_ExtractedOnce ==
    (IsHook /\ AllClean) =>
        \A c \in Commits :
            /\ Cardinality(ExtractedBy(c)) <= 1
            /\ Cardinality(TtlRowsOf(c)) <= 1

\* ---------------------------------------------------------------------------
\* C34: hook installed, repository initialized, backend reachable: once the
\* syncs the hook started have ended (none of their calls failing), every
\* commit made since has a durable row.
HookSyncsEnded ==
    /\ \A p \in Procs : io.procs[p].pc \in {"none", "done"}
    /\ \A p \in Procs : io.procs[p].pc = "done" => io.procs[p].hook

C34_EveryCommitExtracted ==
    (IsHook /\ AllClean /\ HookSyncsEnded) =>
        \A c \in 2..io.head : has_commit(global, c)
====
